---- MODULE Spec2Model ----
(***************************************************************************)
(* A model of scripts/etl.py (class CineDataEtl): the cleanup of a raw     *)
(* batch (cleanup_data and its three checks), the shaping of the cleaned   *)
(* batch into three data frames (filter_data), and the incremental load of *)
(* those frames into the movies, genres and movie_genres tables            *)
(* (load_data_to_db) against the schema declared by create_tables.         *)
(*                                                                         *)
(* Python values are modelled by what the code asks of them:               *)
(*   - a text field is [type |-> "str", s |-> <<tokens>>] or               *)
(*     [type |-> "none", s |-> <<>>]; dict.get gives None for a missing    *)
(*     key, so "missing" and "null" are both the "none" value;             *)
(*   - a release date string is the token sequence <<year, month, day>>    *)
(*     of its three "-"-separated parts (<<>> is the empty string);        *)
(*   - a metric field is its Python type tag, the only thing isinstance    *)
(*     looks at.                                                           *)
(***************************************************************************)
EXTENDS Integers, Sequences, FiniteSets, TLC

VARIABLES
    \* ---- cleanup_data ----
    raw_data,        \* the batch handed to cleanup_data
    idx,             \* position of the next dataset the for loop visits (1-based)
    cleaned_data,    \* the list cleanup_data builds
    seen_ids,        \* the set cleanup_data builds
    log,             \* per visited position, the branch the loop body took
    \* ---- the relational store ----
    movies,          \* rows of table movies, in insertion order
    genres,          \* rows of table genres
    movie_genres,    \* rows of table movie_genres
    \* ---- load_data_to_db, one activation per process ----
    pc,              \* where each activation stands
    movies_df,       \* its three arguments
    genres_df,
    movie_genres_df,
    new_movies_df,   \* its three computed deltas
    new_genres_df,
    new_movie_genres_df,
    failed,          \* the table whose statement raised into the except clause
    reconciled,      \* the tables whose persisted keys this activation has read
    runs,            \* activations started so far
    rerun            \* the current activation repeats the previous arguments

cleanVars == <<raw_data, idx, cleaned_data, seen_ids, log>>
storeVars == <<movies, genres, movie_genres>>
loadVars == <<pc, movies_df, genres_df, movie_genres_df, new_movies_df,
              new_genres_df, new_movie_genres_df, failed, reconciled, runs, rerun>>
vars == <<cleanVars, storeVars, loadVars>>

----------------------------------------------------------------------------
(* Bounds *)

MaxBatch == 2

\* Identifier 5 is the one of the specification's examples.
MovieKeys == {5, 6}

\* dataset['id'] raises KeyError when the key is absent.
NoId == 0

----------------------------------------------------------------------------
(* Python values *)

None == [type |-> "none", s |-> <<>>]

Str(tokens) == [type |-> "str", s |-> tokens]

\* bool(v) for the values a text field can take: None and '' are false.
Truthy(v) == v.type = "str" /\ Len(v.s) > 0

IsLeap(y) == (y % 4 = 0 /\ y % 100 # 0) \/ y % 400 = 0

DaysInMonth(y, m) ==
    IF m \in {4, 6, 9, 11} THEN 30
    ELSE IF m = 2 THEN (IF IsLeap(y) THEN 29 ELSE 28)
    ELSE 31

\* datetime.strptime(v, '%Y-%m-%d') returns (TRUE) or raises TypeError/ValueError.
StrptimeOk(v) ==
    /\ v.type = "str"
    /\ Len(v.s) = 3
    /\ v.s[1] \in 1..9999
    /\ v.s[2] \in 1..12
    /\ v.s[3] \in 1..DaysInMonth(v.s[1], v.s[2])

PyTypes == {"int", "float", "bool", "str", "none"}

\* isinstance(x, (int, float)): bool is a subclass of int.
IsInstanceIntFloat(t) == t \in {"int", "float", "bool"}

RECURSIVE LStrip(_)
LStrip(s) == IF Len(s) > 0 /\ Head(s) = " " THEN LStrip(Tail(s)) ELSE s

RECURSIVE RStrip(_)
RStrip(s) ==
    IF Len(s) > 0 /\ s[Len(s)] = " " THEN RStrip(SubSeq(s, 1, Len(s) - 1)) ELSE s

\* str.strip()
Strip(s) == RStrip(LStrip(s))

----------------------------------------------------------------------------
(* The checks of cleanup_data *)

check_essential_fields(movie) == Truthy(movie.title) /\ Truthy(movie.release_date)

check_release_date(movie) == StrptimeOk(movie.release_date)

check_numeric_fields(movie) ==
    /\ IsInstanceIntFloat(movie.vote_average)
    /\ IsInstanceIntFloat(movie.vote_count)
    /\ IsInstanceIntFloat(movie.popularity)

\* the all([...]) of cleanup_data
PassesValidation(movie) ==
    /\ check_essential_fields(movie)
    /\ check_release_date(movie)
    /\ check_numeric_fields(movie)

\* clean_overview raises AttributeError on a true value that has no strip().
CleanOverviewRaises(movie) == movie.overview.type = "int"

clean_overview(movie) ==
    IF Truthy(movie.overview) THEN Str(Strip(movie.overview.s)) ELSE Str(<<>>)

\* The branch the loop body takes for one dataset, in the order of the code.
ClassifyValidateFirst(dataset, seen) ==
    IF dataset.id = NoId THEN "error"
    ELSE IF ~PassesValidation(dataset) THEN "invalid"
    ELSE IF dataset.id \in seen THEN "duplicate"
    ELSE IF CleanOverviewRaises(dataset) THEN "error"
    ELSE "accepted"

Classify(dataset, seen) ==
    IF dataset.id = NoId THEN "error"
    ELSE IF dataset.id \in seen THEN "duplicate"
    ELSE IF ~PassesValidation(dataset) THEN "invalid"
    ELSE IF CleanOverviewRaises(dataset) THEN "error"
    ELSE "accepted"

SeenUnchanged(seen, id) == seen

\* seen_ids.add(dataset['id'])
SeenAdd(seen, id) == seen \cup {id}

----------------------------------------------------------------------------
(* Raw batches: a well-formed record with at most one field off *)

GoodDate == Str(<<2024, 1, 15>>)

Base(i) ==
    [id |-> i, title |-> Str(<<"T">>), overview |-> Str(<<"nice film">>),
     release_date |-> GoodDate, popularity |-> "float", vote_average |-> "float",
     vote_count |-> "int", genre_ids |-> <<>>]

Variants(i) ==
    {Base(i)}
    \cup {[Base(i) EXCEPT !.title = t] : t \in {Str(<<>>), None}}
    \cup {[Base(i) EXCEPT !.release_date = d] :
            d \in {Str(<<2024, 13, 40>>), Str(<<2023, 2, 29>>), Str(<<>>), None}}
    \cup {[Base(i) EXCEPT !.overview = o] :
            o \in {Str(<<" ", "nice film", " ">>), None, [type |-> "int", s |-> <<>>]}}
    \cup {[Base(i) EXCEPT !.vote_average = t] : t \in PyTypes}
    \cup {[Base(i) EXCEPT !.vote_count = t] : t \in PyTypes}
    \cup {[Base(i) EXCEPT !.popularity = t] : t \in PyTypes}

RawRecords == UNION {Variants(i) : i \in MovieKeys} \cup {Base(NoId)}

RawBatches == UNION {[1..n -> RawRecords] : n \in 0..MaxBatch}

----------------------------------------------------------------------------
(* cleanup_data *)

LoadIdle ==
    /\ movies = <<>> /\ genres = <<>> /\ movie_genres = <<>>
    /\ pc = <<>> /\ movies_df = <<>> /\ genres_df = <<>> /\ movie_genres_df = <<>>
    /\ new_movies_df = <<>> /\ new_genres_df = <<>> /\ new_movie_genres_df = <<>>
    /\ failed = <<>> /\ reconciled = <<>> /\ runs = 0 /\ rerun = FALSE

InitClean ==
    /\ raw_data \in RawBatches
    /\ idx = 1
    /\ cleaned_data = <<>>
    /\ seen_ids = {}
    /\ log = <<>>
    /\ LoadIdle

\* One iteration of the for loop of cleanup_data.
CleanupStep ==
    /\ idx <= Len(raw_data)
    /\ LET dataset == raw_data[idx]
           branch == Classify(dataset, seen_ids)
       IN /\ log' = Append(log, branch)
          /\ IF branch = "accepted"
             THEN /\ cleaned_data' =
                        Append(cleaned_data,
                               [dataset EXCEPT !.overview = clean_overview(dataset)])
                  /\ seen_ids' = SeenAdd(seen_ids, dataset.id)
             ELSE UNCHANGED <<cleaned_data, seen_ids>>
    /\ idx' = idx + 1
    /\ UNCHANGED <<raw_data, storeVars, loadVars>>

NextClean == CleanupStep

SpecClean == InitClean /\ [][NextClean]_vars

CleanupDone == idx > Len(raw_data)

----------------------------------------------------------------------------
(* filter_data *)

MovieColumns(row) ==
    [id |-> row.id, title |-> row.title, overview |-> row.overview,
     release_date |-> row.release_date, popularity |-> row.popularity,
     vote_average |-> row.vote_average, vote_count |-> row.vote_count]

RECURSIVE Flatten(_)
Flatten(ss) == IF ss = <<>> THEN <<>> ELSE Head(ss) \o Flatten(Tail(ss))

\* the rows the inner loop emits for one movie: its genre_ids, verbatim
LinkRows(row) ==
    [k \in 1..Len(row.genre_ids) |-> [movie_id |-> row.id, genre_id |-> row.genre_ids[k]]]

\* filter_data(cleaned_data, genres_list); pd.DataFrame([]) has no columns, which
\* the model writes <<>>.
filter_data(cleaned, genres_list) ==
    [movies |-> [k \in 1..Len(cleaned) |-> MovieColumns(cleaned[k])],
     genres |-> genres_list,
     movie_genres |-> Flatten([k \in 1..Len(cleaned) |-> LinkRows(cleaned[k])])]

----------------------------------------------------------------------------
(* The store: the schema of create_tables and the two statements issued *)

Tables == <<"movies", "genres", "movie_genres">>

Ids(rows) == {rows[k].id : k \in 1..Len(rows)}

Pair(row) == <<row.movie_id, row.genre_id>>

Pairs(rows) == {Pair(rows[k]) : k \in 1..Len(rows)}

NoKeyCheck(rows, table) == TRUE

\* Column('id', Integer, primary_key=True): the appended ids are new and distinct.
PrimaryKeyHolds(rows, table) ==
    /\ \A k \in 1..Len(rows) : rows[k].id \notin Ids(table)
    /\ \A a, b \in 1..Len(rows) : a # b => rows[a].id # rows[b].id

\* Index('Idx_movie_genre', movie_id, genre_id, unique=True)
UniqueIndexHolds(rows, table) ==
    /\ \A k \in 1..Len(rows) : Pair(rows[k]) \notin Pairs(table)
    /\ \A a, b \in 1..Len(rows) : a # b => Pair(rows[a]) # Pair(rows[b])

NoForeignKeys(rows, movie_rows, genre_rows) == TRUE

\* ForeignKeyConstraint(['movie_id'], ['movies.id']) and (['genre_id'], ['genres.id'])
ForeignKeysHold(rows, movie_rows, genre_rows) ==
    \A k \in 1..Len(rows) :
        /\ rows[k].movie_id \in Ids(movie_rows)
        /\ rows[k].genre_id \in Ids(genre_rows)

ToSqlReplace(table, rows) == rows

\* DataFrame.to_sql(..., if_exists='append'): one INSERT transaction
ToSqlAppend(table, rows) == table \o rows

\* pd.read_sql("SELECT id FROM ...")['id'].tolist()
ReadIds(table) == [k \in 1..Len(table) |-> table[k].id]

\* pd.read_sql("SELECT movie_id, genre_id FROM movie_genres")
ReadPairs(table) ==
    [k \in 1..Len(table) |-> [movie_id |-> table[k].movie_id, genre_id |-> table[k].genre_id]]

Elems(seq) == {seq[k] : k \in 1..Len(seq)}

NotIsinKeepsAll(df, existing_ids) == df

\* df[~df['id'].isin(existing_ids)]
NotIsin(df, existing_ids) ==
    LET Keep(row) == row.id \notin Elems(existing_ids) IN SelectSeq(df, Keep)

MergeOnMovieId(l, r) == l.movie_id = r.movie_id

\* on=['movie_id', 'genre_id']
MergeOn(l, r) == l.movie_id = r.movie_id /\ l.genre_id = r.genre_id

\* left.merge(right, on=[...], how='left', indicator=True): per left row, in left
\* order, one row per matching right row, or the row itself marked left_only.
MergeLeft(left, right) ==
    Flatten([k \in 1..Len(left) |->
        LET Match(r) == MergeOn(left[k], r)
            hits == SelectSeq(right, Match)
        IN IF hits = <<>>
           THEN <<[row |-> left[k], indicator |-> "left_only"]>>
           ELSE [h \in 1..Len(hits) |-> [row |-> left[k], indicator |-> "both"]]])

\* the rows with _merge == 'left_only', the _merge column dropped
LeftOnly(merged) ==
    LET Keep(m) == m.indicator = "left_only"
        kept == SelectSeq(merged, Keep)
    IN [k \in 1..Len(kept) |-> kept[k].row]

----------------------------------------------------------------------------
(* Arguments of load_data_to_db: what filter_data makes of a cleaned batch *)

MaxRuns == 3

MaxGenreIds == 2

MaxMovies == 1

MovieIds == {1, 2}

Titles == {"T", "U"}

GenreIds == {10, 11}

GenreIdLists == UNION {[1..n -> GenreIds] : n \in 0..MaxGenreIds}

Movie(i, t, g) == [Base(i) EXCEPT !.title = Str(<<t>>), !.genre_ids = g]

CleanedMovies == {Movie(i, t, g) : i \in MovieIds, t \in Titles, g \in GenreIdLists}

\* cleanup_data returns at most one record per identifier; with an empty list
\* filter_data raises KeyError before load_data_to_db is called.
CleanedBatches ==
    {b \in UNION {[1..n -> CleanedMovies] : n \in 1..MaxMovies} :
        \A a, c \in 1..Len(b) : a # c => b[a].id # b[c].id}

Genre(g) == [id |-> g, name |-> IF g = 10 THEN "Action" ELSE "Drama"]

\* the upstream genre catalog, as far as it has grown
UpstreamCatalog == <<Genre(10), Genre(11)>>

GenreCatalogs == {SubSeq(UpstreamCatalog, 1, n) : n \in 0..Len(UpstreamCatalog)}

----------------------------------------------------------------------------
(* load_data_to_db *)

Procs == {1, 2}

NoTable == "none"

TableOf(label) ==
    IF label \in {"read_movies", "write_movies"} THEN "movies"
    ELSE IF label \in {"read_genres", "write_genres"} THEN "genres"
    ELSE "movie_genres"

Running == {"read_movies", "write_movies", "read_genres", "write_genres",
            "read_links", "write_links"}

NextTableAfterFailure(label) ==
    IF TableOf(label) = "movies" THEN "read_genres"
    ELSE IF TableOf(label) = "genres" THEN "read_links"
    ELSE "done"

\* except Exception: one handler around all three loads; it logs and returns.
AfterFailure(label) == "done"

Raise(p) ==
    /\ failed' = [failed EXCEPT ![p] = IF @ = NoTable THEN TableOf(pc[p]) ELSE @]
    /\ pc' = [pc EXCEPT ![p] = AfterFailure(pc[p])]

InitLoad ==
    /\ raw_data = <<>> /\ idx = 1 /\ cleaned_data = <<>> /\ seen_ids = {} /\ log = <<>>
    /\ movies = <<>> /\ genres = <<>> /\ movie_genres = <<>>
    /\ pc = [p \in Procs |-> "idle"]
    /\ movies_df = [p \in Procs |-> <<>>]
    /\ genres_df = [p \in Procs |-> <<>>]
    /\ movie_genres_df = [p \in Procs |-> <<>>]
    /\ new_movies_df = [p \in Procs |-> <<>>]
    /\ new_genres_df = [p \in Procs |-> <<>>]
    /\ new_movie_genres_df = [p \in Procs |-> <<>>]
    /\ failed = [p \in Procs |-> NoTable]
    /\ reconciled = [p \in Procs |-> {}]
    /\ runs = 0
    /\ rerun = FALSE

Enter(p) ==
    /\ pc' = [pc EXCEPT ![p] = "read_movies"]
    /\ new_movies_df' = [new_movies_df EXCEPT ![p] = <<>>]
    /\ new_genres_df' = [new_genres_df EXCEPT ![p] = <<>>]
    /\ new_movie_genres_df' = [new_movie_genres_df EXCEPT ![p] = <<>>]
    /\ failed' = [failed EXCEPT ![p] = NoTable]
    /\ reconciled' = [reconciled EXCEPT ![p] = {}]
    /\ runs' = runs + 1
    /\ UNCHANGED <<cleanVars, storeVars>>

\* __main__: filter_data, create_tables, then the call of load_data_to_db
StartRun(p) ==
    /\ pc[p] \in {"idle", "done"}
    /\ runs < MaxRuns
    /\ \E cleaned \in CleanedBatches, genres_list \in GenreCatalogs :
          LET dfs == filter_data(cleaned, genres_list)
          IN /\ movies_df' = [movies_df EXCEPT ![p] = dfs.movies]
             /\ genres_df' = [genres_df EXCEPT ![p] = dfs.genres]
             /\ movie_genres_df' = [movie_genres_df EXCEPT ![p] = dfs.movie_genres]
    /\ rerun' = FALSE
    /\ Enter(p)

\* the pipeline is run again on the same upstream snapshot
Rerun(p) ==
    /\ pc[p] = "done"
    /\ runs < MaxRuns
    /\ rerun' = TRUE
    /\ UNCHANGED <<movies_df, genres_df, movie_genres_df>>
    /\ Enter(p)

\* existing_movie_ids = read_sql(...); new_movies_df = movies_df[~isin]
ReadMovies(p) ==
    /\ pc[p] = "read_movies"
    /\ LET new == NotIsin(movies_df[p], ReadIds(movies))
       IN /\ new_movies_df' = [new_movies_df EXCEPT ![p] = new]
          /\ pc' = [pc EXCEPT ![p] = IF new = <<>> THEN "read_genres" ELSE "write_movies"]
    /\ reconciled' = [reconciled EXCEPT ![p] = @ \cup {"movies"}]
    /\ UNCHANGED <<cleanVars, storeVars, movies_df, genres_df, movie_genres_df,
                   new_genres_df, new_movie_genres_df, failed, runs, rerun>>

\* new_movies_df.to_sql('movies', ..., if_exists='append')
WriteMovies(p) ==
    /\ pc[p] = "write_movies"
    /\ IF PrimaryKeyHolds(new_movies_df[p], movies)
       THEN /\ movies' = ToSqlAppend(movies, new_movies_df[p])
            /\ pc' = [pc EXCEPT ![p] = "read_genres"]
            /\ UNCHANGED failed
       ELSE /\ Raise(p)
            /\ UNCHANGED movies
    /\ UNCHANGED <<cleanVars, genres, movie_genres, movies_df, genres_df, movie_genres_df,
                   new_movies_df, new_genres_df, new_movie_genres_df, reconciled,
                   runs, rerun>>

\* existing_genre_ids = read_sql(...); new_genres_df = genres_df[~isin];
\* genres_df['id'] raises KeyError on a frame without columns
ReadGenres(p) ==
    /\ pc[p] = "read_genres"
    /\ IF genres_df[p] = <<>>
       THEN /\ Raise(p)
            /\ UNCHANGED <<new_genres_df, reconciled>>
       ELSE LET new == NotIsin(genres_df[p], ReadIds(genres))
            IN /\ new_genres_df' = [new_genres_df EXCEPT ![p] = new]
               /\ pc' = [pc EXCEPT ![p] =
                            IF new = <<>> THEN "read_links" ELSE "write_genres"]
               /\ reconciled' = [reconciled EXCEPT ![p] = @ \cup {"genres"}]
               /\ UNCHANGED failed
    /\ UNCHANGED <<cleanVars, storeVars, movies_df, genres_df, movie_genres_df,
                   new_movies_df, new_movie_genres_df, runs, rerun>>

\* new_genres_df.to_sql('genres', ..., if_exists='append')
WriteGenres(p) ==
    /\ pc[p] = "write_genres"
    /\ IF PrimaryKeyHolds(new_genres_df[p], genres)
       THEN /\ genres' = ToSqlAppend(genres, new_genres_df[p])
            /\ pc' = [pc EXCEPT ![p] = "read_links"]
            /\ UNCHANGED failed
       ELSE /\ Raise(p)
            /\ UNCHANGED genres
    /\ UNCHANGED <<cleanVars, movies, movie_genres, movies_df, genres_df, movie_genres_df,
                   new_movies_df, new_genres_df, new_movie_genres_df, reconciled,
                   runs, rerun>>

\* existing_movie_genres = read_sql(...); the left merge with indicator, the
\* left_only rows; merging a frame without columns raises KeyError
ReadLinks(p) ==
    /\ pc[p] = "read_links"
    /\ IF movie_genres_df[p] = <<>>
       THEN /\ Raise(p)
            /\ UNCHANGED <<new_movie_genres_df, reconciled>>
       ELSE LET new == LeftOnly(MergeLeft(movie_genres_df[p], ReadPairs(movie_genres)))
            IN /\ new_movie_genres_df' = [new_movie_genres_df EXCEPT ![p] = new]
               /\ pc' = [pc EXCEPT ![p] = IF new = <<>> THEN "done" ELSE "write_links"]
               /\ reconciled' = [reconciled EXCEPT ![p] = @ \cup {"movie_genres"}]
               /\ UNCHANGED failed
    /\ UNCHANGED <<cleanVars, storeVars, movies_df, genres_df, movie_genres_df,
                   new_movies_df, new_genres_df, runs, rerun>>

\* new_movie_genres_df.to_sql('movie_genres', ..., if_exists='append')
WriteLinks(p) ==
    /\ pc[p] = "write_links"
    /\ IF /\ UniqueIndexHolds(new_movie_genres_df[p], movie_genres)
          /\ ForeignKeysHold(new_movie_genres_df[p], movies, genres)
       THEN /\ movie_genres' = ToSqlAppend(movie_genres, new_movie_genres_df[p])
            /\ pc' = [pc EXCEPT ![p] = "done"]
            /\ UNCHANGED failed
       ELSE /\ Raise(p)
            /\ UNCHANGED movie_genres
    /\ UNCHANGED <<cleanVars, movies, genres, movies_df, genres_df, movie_genres_df,
                   new_movies_df, new_genres_df, new_movie_genres_df, reconciled,
                   runs, rerun>>

\* the store is unreachable for one statement: read_sql or to_sql raises
TransportFailure(p) ==
    /\ pc[p] \in Running
    /\ Raise(p)
    /\ UNCHANGED <<cleanVars, storeVars, movies_df, genres_df, movie_genres_df,
                   new_movies_df, new_genres_df, new_movie_genres_df, reconciled,
                   runs, rerun>>

Load(p) ==
    \/ ReadMovies(p)
    \/ WriteMovies(p)
    \/ ReadGenres(p)
    \/ WriteGenres(p)
    \/ ReadLinks(p)
    \/ WriteLinks(p)

\* One pipeline process, run after run, against a store that can fail.
NextLoad == StartRun(1) \/ Load(1) \/ TransportFailure(1)

SpecLoad == InitLoad /\ [][NextLoad]_vars

\* One pipeline process against a store that is always reachable; a run may be
\* repeated on the same data.
NextReliable == StartRun(1) \/ Rerun(1) \/ Load(1)

SpecReliable == InitLoad /\ [][NextReliable]_vars

\* a process that has not run yet starts its only run
StartOnce(p) == pc[p] = "idle" /\ StartRun(p)

\* Two uncoordinated pipeline processes, one run each, statements interleaved.
NextConc == \E p \in Procs : StartOnce(p) \/ Load(p)

SpecConc == InitLoad /\ [][NextConc]_vars

----------------------------------------------------------------------------
(* Properties of cleanup_data *)

Visited == 1..Len(log)

Kept == {i \in Visited : log[i] = "accepted"}

\* The k-th kept position, in batch order.
KeptAt(k) == CHOOSE i \in Kept : Cardinality({j \in Kept : j < i}) = k - 1

AcceptedEarlier(i) ==
    \E j \in Visited : j < i /\ log[j] = "accepted" /\ raw_data[j].id = raw_data[i].id

\* The dataset would be appended if it were the only one of its identifier.
Acceptable(d) == d.id # NoId /\ PassesValidation(d) /\ ~CleanOverviewRaises(d)

\* C6 (as amended): the output holds at most one record per identifier; the
\* survivor of an identifier is its earliest occurrence that passes validation
\* and cleans without error, every later occurrence is discarded, and the
\* survivors stand in cleaned_data in their input order.
C6_FirstValidOccurrenceKept ==
    /\ \A a, b \in 1..Len(cleaned_data) :
          a # b => cleaned_data[a].id # cleaned_data[b].id
    /\ \A i \in Visited :
          log[i] = "accepted" <=>
             /\ Acceptable(raw_data[i])
             /\ \A j \in Visited :
                   (j < i /\ raw_data[j].id = raw_data[i].id) => ~Acceptable(raw_data[j])
    /\ Len(cleaned_data) = Cardinality(Kept)
    /\ \A k \in 1..Len(cleaned_data) :
          cleaned_data[k] =
             [raw_data[KeptAt(k)] EXCEPT !.overview = clean_overview(raw_data[KeptAt(k)])]

\* C6 witness: an identifier occurs twice, the first occurrence is kept and the
\* second is dropped as a duplicate.
C6_Witness ==
    /\ CleanupDone
    /\ \E i, j \in Visited :
          /\ i < j
          /\ raw_data[i].id = raw_data[j].id
          /\ log[i] = "accepted"
          /\ log[j] = "duplicate"
          /\ Len(cleaned_data) = 1

\* C6 (original statement): when an identifier occurs at several positions, only
\* the record at the earliest position of the batch can survive.
C6_Original_EarliestPositionKept ==
    CleanupDone =>
        \A i \in Kept : \A j \in Visited :
            j < i => raw_data[j].id # raw_data[i].id

\* C8: no record whose vote_average, vote_count or popularity is a string, null
\* or a boolean is present in the output of cleanup_data.
C8_NonNumericMetricDropped ==
    \A k \in 1..Len(cleaned_data) :
        /\ cleaned_data[k].vote_average \in {"int", "float"}
        /\ cleaned_data[k].vote_count \in {"int", "float"}
        /\ cleaned_data[k].popularity \in {"int", "float"}

\* C10 (as amended): the duplicate test comes first. A record with an identifier
\* is dropped as "duplicate" exactly when a record of that identifier was
\* accepted earlier in the batch, whether or not it would pass validation; it is
\* dropped as "invalid" exactly when no such record was accepted earlier and it
\* fails validation.
C10_DuplicateTestBeforeValidation ==
    \A i \in Visited :
        raw_data[i].id # NoId =>
            /\ log[i] = "duplicate" <=> AcceptedEarlier(i)
            /\ log[i] = "invalid" <=>
                   (~AcceptedEarlier(i) /\ ~PassesValidation(raw_data[i]))

\* C10 witness: a record that fails validation is dropped as a duplicate.
C10_Witness ==
    \E i \in Visited :
        /\ log[i] = "duplicate"
        /\ ~PassesValidation(raw_data[i])
        /\ AcceptedEarlier(i)

\* C10 (original statement): a record is dropped as "duplicate" only if it passed
\* validation and its identifier was accepted earlier; a record that fails
\* validation is always dropped as "invalid".
C10_Original_ValidationBeforeDuplicate ==
    \A i \in Visited :
        /\ log[i] = "duplicate" => (PassesValidation(raw_data[i]) /\ AcceptedEarlier(i))
        /\ ~PassesValidation(raw_data[i]) => log[i] = "invalid"

----------------------------------------------------------------------------
(* Properties of load_data_to_db *)

Distinct(keys) == \A a, b \in 1..Len(keys) : a # b => keys[a] # keys[b]

PairsOf(rows) == [k \in 1..Len(rows) |-> Pair(rows[k])]

Position(t) == CHOOSE k \in 1..Len(Tables) : Tables[k] = t

Delta(p, t) ==
    IF t = "movies" THEN new_movies_df[p]
    ELSE IF t = "genres" THEN new_genres_df[p]
    ELSE new_movie_genres_df[p]

Stored(t) ==
    IF t = "movies" THEN movies ELSE IF t = "genres" THEN genres ELSE movie_genres

TableNames == Elems(Tables)

Key(t, row) == IF t = "movie_genres" THEN Pair(row) ELSE <<row.id>>

Keys(t, rows) == {Key(t, rows[k]) : k \in 1..Len(rows)}

C1_SecondRunDeltas ==
    (rerun /\ pc[1] = "done") =>
        /\ \A t \in TableNames : Keys(t, Delta(1, t)) \cap Keys(t, Stored(t)) = {}
        /\ failed[1] = NoTable => \A t \in TableNames : Delta(1, t) = <<>>

C3_ReferentialIntegrity ==
    \A k \in 1..Len(movie_genres) :
        /\ movie_genres[k].movie_id \in Ids(movies)
        /\ movie_genres[k].genre_id \in Ids(genres)

\* C3 witness: links are persisted, and a run whose link refers to a genre
\* outside its catalog has been refused by the store.
C3_Witness ==
    /\ movie_genres # <<>>
    /\ failed[1] = "movie_genres"
    /\ \E k \in 1..Len(new_movie_genres_df[1]) :
          new_movie_genres_df[1][k].genre_id \notin Ids(genres)

C4_Unique ==
    /\ Distinct(ReadIds(movies))
    /\ Distinct(ReadIds(genres))
    /\ Distinct(PairsOf(movie_genres))

\* the keys of p's pending append that are persisted by now
Overtaken(p) ==
    IF pc[p] = "write_links"
    THEN Pairs(new_movie_genres_df[p]) \cap Pairs(movie_genres)
    ELSE IF pc[p] = "write_genres" THEN Ids(new_genres_df[p]) \cap Ids(genres)
    ELSE IF pc[p] = "write_movies" THEN Ids(new_movies_df[p]) \cap Ids(movies)
    ELSE {}

C4_RaceFails ==
    \A p \in Procs :
        (Overtaken(p) # {} /\ pc'[p] # pc[p]) =>
            /\ failed'[p] = TableOf(pc[p])
            /\ pc'[p] = "done"
            /\ UNCHANGED storeVars

\* C4: under any interleaving of two runs no table ever holds a key twice, and an
\* append of a key that the other run persisted in the meantime fails and leaves
\* the store as it was.
C4_ConcurrentRunsKeepKeysUnique == []C4_Unique /\ [][C4_RaceFails]_vars

\* C4 witness: both runs computed the same movie as new; one append succeeded
\* and the later one failed.
C4_Witness ==
    \E p, q \in Procs :
        /\ p # q
        /\ failed[q] = "movies"
        /\ failed[p] = NoTable
        /\ Ids(new_movies_df[p]) \cap Ids(new_movies_df[q]) # {}
        /\ Ids(new_movies_df[p]) \subseteq Ids(movies)
        /\ Len(movies) = 1

\* the candidate rows whose pair is not persisted, in candidate order
AntiJoin(candidates, persisted) ==
    LET Fresh(row) == Pair(row) \notin Pairs(persisted) IN SelectSeq(candidates, Fresh)

\* C5: the rows selected for movie_genres are exactly the candidate rows whose
\* (movie_id, genre_id) pair is not persisted, in candidate order.
C5_LinkDeltaIsAntiJoinOnPair ==
    /\ pc[1] = "write_links" =>
          new_movie_genres_df[1] = AntiJoin(movie_genres_df[1], movie_genres)
    /\ (pc[1] = "done" /\ failed[1] = NoTable /\ new_movie_genres_df[1] = <<>>) =>
          AntiJoin(movie_genres_df[1], movie_genres) = <<>>

\* C5 witness: a candidate is dropped because its pair is persisted, and another
\* is selected although its genre_id alone, and a third although its movie_id
\* alone, occurs in a persisted pair.
C5_Witness ==
    /\ pc[1] = "write_links"
    /\ \E k \in 1..Len(movie_genres_df[1]) :
          Pair(movie_genres_df[1][k]) \in Pairs(movie_genres)
    /\ \E k \in 1..Len(new_movie_genres_df[1]) : \E j \in 1..Len(movie_genres) :
          /\ new_movie_genres_df[1][k].movie_id = movie_genres[j].movie_id
          /\ new_movie_genres_df[1][k].genre_id # movie_genres[j].genre_id
    /\ \E j, i \in 1..Len(movie_genres) :
          /\ new_movie_genres_df[1][1].genre_id = movie_genres[j].genre_id
          /\ new_movie_genres_df[1][1].movie_id # movie_genres[j].movie_id

\* C7: the movie_genres rows submitted for append contain no pair twice and no
\* persisted pair.
C7_SubmittedPairsUnique ==
    pc[1] = "write_links" =>
        /\ Distinct(PairsOf(new_movie_genres_df[1]))
        /\ Pairs(new_movie_genres_df[1]) \cap Pairs(movie_genres) = {}

IsPrefix(s, t) == Len(s) <= Len(t) /\ SubSeq(t, 1, Len(s)) = s

C9_Step ==
    \A t \in TableNames :
        /\ IsPrefix(Stored(t), Stored(t)')
        /\ Stored(t)' # Stored(t) =>
              \E p \in Procs :
                  /\ pc[p] \in Running
                  /\ TableOf(pc[p]) = t
                  /\ Stored(t)' = Stored(t) \o Delta(p, t)

\* C9: no step updates or deletes a persisted row; a table after a step is the
\* table before it followed by the delta the writing run computed for it.
C9_AppendOnly == [][C9_Step]_vars

\* C9 witness: a later run offered a persisted movie under another title and
\* new links for it; the links were appended behind the persisted ones and the
\* persisted movie row stands as it was.
C9_Witness ==
    /\ pc[1] = "done"
    /\ failed[1] = NoTable
    /\ new_movies_df[1] = <<>>
    /\ \E k \in 1..Len(movies) :
          /\ movies[k].id = movies_df[1][1].id
          /\ movies[k].title # movies_df[1][1].title
    /\ new_movie_genres_df[1] # <<>>
    /\ Len(movie_genres) > Len(new_movie_genres_df[1])
    /\ Pairs(new_movie_genres_df[1]) \subseteq Pairs(movie_genres)

====
